---------------------------- MODULE Spec2Model ----------------------------
(***************************************************************************)
(* python-steganographer: the browser client (Next.js/React) and the       *)
(* steganography backend it calls.                                         *)
(*                                                                         *)
(* The backend (python_steganographer/*.py) is not among the source files; *)
(* its part of the model follows the repository's documentation            *)
(* (docs/API.md, .github/copilot-instructions.md) and the specification's  *)
(* sections 4 to 7.  The client is modelled from its TypeScript sources.   *)
(***************************************************************************)
EXTENDS Integers, Sequences, FiniteSets, Bags, TLC

(***************************************************************************)
(* Bounds of the model.                                                    *)
(***************************************************************************)
MaxMsgLen == 3      \* longest message a request carries (backend)
MaxKey == 2         \* size of the toy key space (backend)

(***************************************************************************)
(* Backend: documented constants.                                          *)
(***************************************************************************)
BitsPerChar == 7        \* "7 bits per character"
RsaKeyBits == 2048      \* "RSA-2048 key pair is generated for each encoding"
DctBlockSize == 8       \* "dct_block_size": 8
CodeOk == 200
CodeError == 500

CharMod == 2 ^ BitsPerChar
KeyMod == 2 * MaxKey + 1

Dims == {3, 4, 12, 16, 64, 512}
Alphabet == {65, 66}
Algorithms == {"lsb", "dct"}
RequestAlgorithms == Algorithms \cup {"xyz"}
Kinds == {"encode", "decode", "capacity"}
KeySpace == 1..MaxKey

SeqsUpTo(S, n) == UNION {[1..k -> S] : k \in 0..n}
Messages == SeqsUpTo(Alphabet, MaxMsgLen)

(***************************************************************************)
(* Image data on the wire.  kind "empty" is the string "", "garbage" is    *)
(* data no image decodes from, "image" is a raster of w x h pixels whose   *)
(* three channels carry the payloads of `hidden` (present = FALSE: the     *)
(* image was never encoded).                                               *)
(***************************************************************************)
NoHidden == [present |-> FALSE, alg |-> "none", red |-> <<>>, green |-> 0, iv |-> 0, blue |-> 0]
EmptyData == [kind |-> "empty", w |-> 0, h |-> 0, hidden |-> NoHidden]
GarbageData == [kind |-> "garbage", w |-> 0, h |-> 0, hidden |-> NoHidden]
PlainImage(w, h) == [kind |-> "image", w |-> w, h |-> h, hidden |-> NoHidden]
PlainImages == {PlainImage(w, h) : w \in Dims, h \in Dims}
ClientImageData == PlainImages \cup {EmptyData, GarbageData}

(***************************************************************************)
(* Backend state: one request at a time (requests share no state).         *)
(*   bReq   the request being served                                       *)
(*   bState Idle, Received, Validated, Processing, Succeeded, Failed       *)
(*   bWork  the handler's working data while Processing                    *)
(*   bResp  the response returned                                          *)
(***************************************************************************)
VARIABLES bReq, bState, bWork, bResp

(***************************************************************************)
(* Client state (browser).                                                 *)
(*   localStorage  the value stored under python_steganographer_api_key    *)
(*   auth          AuthProvider: apiKey, isInitialized, hasRedirected      *)
(*   router        pathname and the router.replace not yet in effect       *)
(*   loginPage     LoginPage: apiKey, isLoading, error                     *)
(*   health        useHealthStatus: status                                 *)
(*   home          Home: mode, original image, encoded image               *)
(*   encodePanel   EncodePanel's state                                     *)
(*   decodePanel   DecodePanel's state                                     *)
(*   net           requests sent and not yet answered (a bag)              *)
(*   hist          history: which response each held result came from      *)
(***************************************************************************)
VARIABLES localStorage, auth, router, loginPage, health, home, encodePanel, decodePanel,
          net, hist

bvars == <<bReq, bState, bWork, bResp>>
cvars == <<localStorage, auth, router, loginPage, health, home, encodePanel, decodePanel,
           net, hist>>
vars == <<bReq, bState, bWork, bResp, localStorage, auth, router, loginPage, health, home,
          encodePanel, decodePanel, net, hist>>

NoBundle == [rsa |-> 0, aes |-> 0, iv |-> 0]
NoWork == [stage |-> "none", img |-> EmptyData, bundle |-> NoBundle]
NoReq == [kind |-> "none", img |-> EmptyData, alg |-> "none", msg |-> <<>>]
NoResp == [code |-> 0, kind |-> "none", image_data |-> EmptyData,
           decoded_message |-> <<>>, capacity_characters |-> 0]
Final == {"Succeeded", "Failed"}

(***************************************************************************)
(* Bounds of the client model.                                             *)
(***************************************************************************)
MaxTyped == 1       \* longest message typed into EncodePanel
MaxInFlight == 2    \* requests awaiting their response at one time
MaxCalls == 4       \* calls of lib/auth.ts in a row

(***************************************************************************)
(* Client values.  Null is JavaScript's null; NoCapacity is the null of    *)
(* useState<number | null>; Undefined is a body without a code field; ""   *)
(* is the empty (falsy) string.                                            *)
(***************************************************************************)
Null == "<null>"
NoCapacity == -1
Undefined == -1
\* localStorage where there is no window (typeof window === "undefined")
NoWindow == "<no window>"

ApiKeys == {"k1", "k2"}
TypedKeys == ApiKeys \cup {"", " "}
Paths == {"/login/", "/home/", "/"}
Ops == {"login", "health", "capacity", "encode", "decode"}
TypedAlphabet == {" ", "a"}
TypedMessages == SeqsUpTo(TypedAlphabet, MaxTyped)

NoImage == [data |-> Null, format |-> "png", filename |-> "image"]
Uploads == {[data |-> "img1", format |-> "png", filename |-> "one"],
            [data |-> "img2", format |-> "jpg", filename |-> "two"]}

\* String.prototype.trim
RECURSIVE TrimStart(_)
TrimStart(s) == IF s # <<>> /\ Head(s) = " " THEN TrimStart(Tail(s)) ELSE s

RECURSIVE TrimEnd(_)
TrimEnd(s) == IF s # <<>> /\ s[Len(s)] = " " THEN TrimEnd(SubSeq(s, 1, Len(s) - 1)) ELSE s

Trim(s) == TrimEnd(TrimStart(s))

TrimKey(k) == IF k = " " THEN "" ELSE k

\* a string or null in a condition
Truthy(x) == x # Null /\ x # ""

(***************************************************************************)
(* lib/auth.ts                                                             *)
(***************************************************************************)
getApiKey(store) == IF store # NoWindow THEN store ELSE Null

saveApiKeyOnce(store, apiKey) ==
    IF store # NoWindow THEN (IF store = Null THEN apiKey ELSE store) ELSE store

saveApiKey(store, apiKey) == IF store # NoWindow THEN apiKey ELSE store

removeApiKeyKeeps(store) == store

removeApiKey(store) == IF store # NoWindow THEN Null ELSE store

isAuthenticated(store) == getApiKey(store) # Null

(***************************************************************************)
(* lib/api.ts: what a request comes back with.                             *)
(*   transport "ok"          the HTTP status is 2xx: axios resolves        *)
(*             "http_error"  another HTTP status: axios rejects with       *)
(*                           error.response                                *)
(*             "no_response" axios rejects with error.request only         *)
(*             "not_sent"    axios rejects with neither (the request could *)
(*                           not be set up); errorMessage is its message   *)
(*   status, statusText      of the HTTP response                          *)
(*   code, message, detail   fields of the body ("" = absent or empty);    *)
(*                           a detail that is no string is written as the  *)
(*                           name of the object, detailIsString FALSE      *)
(*   payload                 image_data, decoded_message,                  *)
(*                           capacity_characters or status                 *)
(***************************************************************************)
BodyCodes == {Undefined, 199, 200, 300, 500}
BodyMessages == {"", "boom"}
CapacityValues == {0, 1}

InSuccessRange(code) == code # Undefined /\ code >= 200 /\ code < 300

EmptyPayload(op) == IF op = "capacity" THEN 0 ELSE ""

SuccessPayloads(op) ==
    CASE op = "capacity" -> CapacityValues
      [] op = "encode" -> {"ENC"}
      [] op = "decode" -> {"", "secret"}
      [] op = "health" -> {"healthy", "degraded"}
      [] OTHER -> {""}

\* The documented server fills the payload only on success.  The bodies
\* tried: a success, a body of each other code without message, the
\* documented failure body (code 500 with a message); an HTTP error whose
\* body has a message; no response at all.
Response(transport, status, statusText, code, message, detail, detailIsString, payload) ==
    [transport |-> transport, status |-> status, statusText |-> statusText,
     errorMessage |-> IF transport = "not_sent" THEN "Network Error" ELSE "",
     code |-> code, message |-> message, detail |-> detail,
     detailIsString |-> detailIsString, payload |-> payload]

\* What only /login is tried with: the error bodies of the server's
\* authentication layer (a detail, a detail that is a list, no body field
\* at all, a message beside a detail) and a request that was never sent.
LoginErrorResponses ==
    {Response("http_error", 401, "Unauthorized", Undefined, m, d.text, d.isString, "") :
        m \in BodyMessages,
        d \in {[text |-> "", isString |-> TRUE], [text |-> "Invalid API key", isString |-> TRUE],
               [text |-> "errors", isString |-> FALSE]}}
    \cup
    {Response("not_sent", 0, "", Undefined, "", "", TRUE, "")}

Responses(op) ==
    {Response("ok", 200, "OK", c, "done", "", TRUE, p) :
        c \in {x \in BodyCodes : InSuccessRange(x)}, p \in SuccessPayloads(op)}
    \cup
    {Response("ok", 200, "OK", c, "", "", TRUE, EmptyPayload(op)) :
        c \in {x \in BodyCodes : ~InSuccessRange(x)}}
    \cup
    {Response("ok", 200, "OK", CodeError, m, "", TRUE, EmptyPayload(op)) :
        m \in BodyMessages \ {""}}
    \cup
    {Response("http_error", 500, "Internal Server Error", CodeError, m, "", TRUE,
              EmptyPayload(op)) : m \in BodyMessages \ {""}}
    \cup
    {Response("no_response", 0, "", Undefined, "", "", TRUE, EmptyPayload(op))}
    \cup
    (IF op = "login" THEN LoginErrorResponses ELSE {})

InterceptorKeepsHeader(header, store) ==
    IF header = Null /\ Truthy(getApiKey(store)) THEN getApiKey(store) ELSE header

\* The request interceptor: the stored key, when there is one, replaces
\* whatever X-API-KEY the call supplied.
Interceptor(header, store) ==
    IF Truthy(getApiKey(store)) THEN getApiKey(store) ELSE header

\* JSON.stringify of the object named d
JsonStringify(d) == "{\"" \o d \o "\"}"

extractErrorMessageDetailFirst(error) ==
    IF error.isAxiosError
    THEN IF error.response
         THEN IF error.detail # ""
              THEN (IF error.detailIsString THEN error.detail ELSE JsonStringify(error.detail))
              ELSE IF error.message # "" THEN error.message
              ELSE "Server error: " \o ToString(error.status) \o " " \o error.statusText
         ELSE IF error.request
         THEN "No response from server. Please check if the backend is running."
         ELSE "Request failed: " \o error.errorMessage
    ELSE "An unexpected error occurred"

extractErrorMessage(error) ==
    IF error.isAxiosError
    THEN IF error.response
         THEN IF error.message # "" THEN error.message
              ELSE IF error.detail # ""
              THEN (IF error.detailIsString THEN error.detail ELSE JsonStringify(error.detail))
              ELSE "Server error: " \o ToString(error.status) \o " " \o error.statusText
         ELSE IF error.request
         THEN "No response from server. Please check if the backend is running."
         ELSE "Request failed: " \o error.errorMessage
    ELSE "An unexpected error occurred"

AcceptsAnyCode(data) == data.code # Undefined

isSuccessResponse(data) == data.code # Undefined /\ data.code >= 200 /\ data.code < 300

DefaultFailure(op) ==
    CASE op = "login" -> "Login failed"
      [] op = "encode" -> "Image encoding failed"
      [] op = "decode" -> "Image decoding failed"
      [] op = "capacity" -> "Capacity check failed"
      [] OTHER -> ""

\* The Error thrown inside the try block for a body that is no success.
ThrownForBody(op, data) ==
    [isAxiosError |-> FALSE, response |-> FALSE, request |-> FALSE,
     status |-> 0, statusText |-> "",
     errorMessage |-> IF data.message # "" THEN data.message ELSE DefaultFailure(op),
     message |-> "", detail |-> "", detailIsString |-> TRUE]

\* The error axios rejects with.
AxiosError(resp) ==
    [isAxiosError |-> TRUE, response |-> resp.transport = "http_error",
     request |-> resp.transport = "no_response",
     status |-> resp.status, statusText |-> resp.statusText,
     errorMessage |-> resp.errorMessage,
     message |-> resp.message, detail |-> resp.detail, detailIsString |-> resp.detailIsString]

Resolved(resp) == [ok |-> TRUE, code |-> resp.code, value |-> resp.payload, error |-> ""]

RejectedNotRethrown(resp, error) ==
    [ok |-> TRUE, code |-> resp.code, value |-> resp.payload, error |-> ""]

Rejected(resp, error) ==
    [ok |-> FALSE, code |-> resp.code, value |-> resp.payload, error |-> extractErrorMessage(error)]

\* login, encodeImage, decodeImage, getImageCapacity: the promise's outcome.
ApiResult(op, resp) ==
    IF resp.transport = "ok"
    THEN IF isSuccessResponse(resp)
         THEN Resolved(resp)
         ELSE Rejected(resp, ThrownForBody(op, resp))
    ELSE Rejected(resp, AxiosError(resp))

\* getHealth returns the body whatever its code.
HealthResult(resp) ==
    IF resp.transport = "ok" THEN Resolved(resp) ELSE Rejected(resp, AxiosError(resp))

(***************************************************************************)
(* Requests in flight.  header is the X-API-KEY sent (Null: none), key the *)
(* key the call itself supplied (login), stored the content of             *)
(* localStorage when it was sent.  live: the component instance that       *)
(* awaits the response is still mounted; homeLive: so is the Home that     *)
(* passed onEncodedImage.                                                  *)
(***************************************************************************)
Request(op, key, img, fmt, alg, store) ==
    [op |-> op, key |-> key, header |-> Interceptor(key, store), stored |-> store,
     imageData |-> img, imageFormat |-> fmt, algorithm |-> alg, live |-> TRUE, homeLive |-> TRUE]

Send(n, r) == n (+) SetToBag({r})

Take(n, r) == n (-) SetToBag({r})

Room(n) == BagCardinality(n) < MaxInFlight

InFlight(n) == BagToSet(n)

\* Ops whose response changes nothing once the awaiting component is gone
\* (every effect is a setState of that component).
Ignored == {"capacity", "decode", "health"}

\* The components awaiting the requests of `ops` leave the page (with Home
\* itself, when homeGone).  An encode or login response still has effects
\* then: the request stays, awaited by no component; the others are
\* dropped.
Unmount(n, ops, homeGone) ==
    LET dead(r) == IF r.op \in ops
                   THEN [r EXCEPT !.live = FALSE, !.homeLive = @ /\ ~homeGone]
                   ELSE r
        kept == {r \in InFlight(n) : r.op \notin (ops \cap Ignored)}
        count(q) == LET RECURSIVE Sum(_)
                        Sum(S) == IF S = {} THEN 0
                                  ELSE LET x == CHOOSE x \in S : TRUE
                                       IN CopiesIn(x, n) + Sum(S \ {x})
                    IN Sum({r \in kept : dead(r) = q})
    IN [q \in {dead(r) : r \in kept} |-> count(q)]

(***************************************************************************)
(* Component states as mounted and as absent.                              *)
(***************************************************************************)
AuthLoading == [apiKey |-> Null, isInitialized |-> FALSE, hasRedirected |-> FALSE]

LoginPageFresh == [mounted |-> TRUE, apiKey |-> "", isLoading |-> FALSE, error |-> Null]
LoginPageAbsent == [mounted |-> FALSE, apiKey |-> "", isLoading |-> FALSE, error |-> Null]

HealthFresh == [mounted |-> TRUE, status |-> "checking"]
HealthAbsent == [mounted |-> FALSE, status |-> "checking"]

HomeFresh ==
    [mounted |-> TRUE, mode |-> "encode", original |-> NoImage,
     encodedImageData |-> Null, encodedImageFormat |-> "png"]
HomeAbsent == [HomeFresh EXCEPT !.mounted = FALSE]

EncodePanelFresh ==
    [mounted |-> TRUE, algorithm |-> "lsb", message |-> <<>>, capacity |-> NoCapacity,
     loading |-> FALSE, error |-> Null, loadingCapacity |-> FALSE]
EncodePanelAbsent == [EncodePanelFresh EXCEPT !.mounted = FALSE]

DecodePanelFresh ==
    [mounted |-> TRUE, algorithm |-> "lsb", decodedMessage |-> Null, loading |-> FALSE,
     error |-> Null]
DecodePanelAbsent == [DecodePanelFresh EXCEPT !.mounted = FALSE]

NoPair == <<Null, Null>>
HistNone ==
    [capacityFrom |-> NoPair, capacityCode |-> 0, lastAsked |-> NoPair,
     encodedCode |-> 0, decodedCode |-> 0, savedCode |-> 0,
     loggedOut |-> FALSE, calls |-> <<>>, alert |-> Null]

\* The client with nothing loaded (the state the backend is checked in).
ClientIdle ==
    /\ localStorage = Null
    /\ auth = AuthLoading
    /\ router = [pathname |-> "/login/", pending |-> Null]
    /\ loginPage = LoginPageAbsent
    /\ health = HealthAbsent
    /\ home = HomeAbsent
    /\ encodePanel = EncodePanelAbsent
    /\ decodePanel = DecodePanelAbsent
    /\ net = EmptyBag
    /\ hist = HistNone

(***************************************************************************)
(* Capacity Calculator.                                                    *)
(***************************************************************************)
NumPixels(img) == img.w * img.h

NumBlocksByArea(img) == (img.w * img.h) \div (DctBlockSize * DctBlockSize)

NumBlocks(img) == (img.w \div DctBlockSize) * (img.h \div DctBlockSize)

LSBCapacityBytes(img) == NumPixels(img) \div (BitsPerChar + 1)

LSBCapacity(img) == NumPixels(img) \div BitsPerChar

\* One bit per block, BitsPerChar bits per character, one character kept for
\* the null terminator.
DCTCapacity(img) ==
    IF NumBlocks(img) \div BitsPerChar >= 1 THEN NumBlocks(img) \div BitsPerChar - 1 ELSE 0

Capacity(img, alg) == IF alg = "lsb" THEN LSBCapacity(img) ELSE DCTCapacity(img)

(***************************************************************************)
(* Embedders: one bit per pixel (LSB) or per block (DCT); DCT appends a    *)
(* null group.  A payload that needs more bits than the channel has is     *)
(* refused.                                                                *)
(***************************************************************************)
ChannelBits(img, alg) == IF alg = "lsb" THEN NumPixels(img) ELSE NumBlocks(img)

TerminatorBits(alg) == IF alg = "dct" THEN BitsPerChar ELSE 0

FitsInCharacters(img, alg, bits) ==
    (bits + TerminatorBits(alg)) \div BitsPerChar <= ChannelBits(img, alg)

Fits(img, alg, bits) == bits + TerminatorBits(alg) <= ChannelBits(img, alg)

RedBits(cipher) == BitsPerChar * Len(cipher)
\* An RSA ciphertext is as long as the modulus; a private key is no shorter.
GreenBits == RsaKeyBits
BlueBits == RsaKeyBits

(***************************************************************************)
(* Hybrid Encryption Handler, with a toy cipher: a keyed, invertible       *)
(* substitution stands for AES-CFB, a keyed shift for RSA.                 *)
(***************************************************************************)
AesEncrypt(m, aes, iv) == [i \in 1..Len(m) |-> (m[i] + aes + iv) % CharMod]

AesDecrypt(c, aes, iv) == [i \in 1..Len(c) |-> (c[i] + 2 * CharMod - aes - iv) % CharMod]

RsaEncrypt(aes, pub) == (aes + pub) % KeyMod

RsaDecrypt(x, priv) == (x + KeyMod - priv) % KeyMod

Bundles == [rsa : KeySpace, aes : KeySpace, iv : KeySpace]

(***************************************************************************)
(* Responses.                                                              *)
(***************************************************************************)
FailResponseWithWork(kind, work) ==
    [NoResp EXCEPT !.code = CodeError, !.kind = kind, !.image_data = work.img]

FailResponse(kind, work) ==
    [NoResp EXCEPT !.code = CodeError, !.kind = kind]

EncodeSuccess(img) ==
    [NoResp EXCEPT !.code = CodeOk, !.kind = "encode", !.image_data = img]

DecodeSuccess(m) ==
    [NoResp EXCEPT !.code = CodeOk, !.kind = "decode", !.decoded_message = m]

CapacitySuccess(n) ==
    [NoResp EXCEPT !.code = CodeOk, !.kind = "capacity", !.capacity_characters = n]

(***************************************************************************)
(* decode as a function of the image data and the algorithm: the message   *)
(* the decode endpoint returns ("" when it fails).                         *)
(***************************************************************************)
Decodable(data, alg) ==
    /\ data.kind = "image"
    /\ alg \in Algorithms
    /\ data.hidden.present
    /\ data.hidden.alg = alg

Extract(data) ==
    AesDecrypt(data.hidden.red,
               RsaDecrypt(data.hidden.green, data.hidden.blue),
               data.hidden.iv)

DecodedMessage(data, alg) == IF Decodable(data, alg) THEN Extract(data) ELSE <<>>

(***************************************************************************)
(* Request handling.                                                       *)
(***************************************************************************)
BInit ==
    /\ bReq = NoReq
    /\ bState = "Idle"
    /\ bWork = NoWork
    /\ bResp = NoResp
    /\ ClientIdle

Receive(kind, img, alg, msg) ==
    /\ bReq' = [kind |-> kind, img |-> img, alg |-> alg,
                msg |-> IF kind = "encode" THEN msg ELSE <<>>]
    /\ bState' = "Received"
    /\ bWork' = NoWork
    /\ bResp' = NoResp
    /\ UNCHANGED cvars

ReceiveFromClient ==
    /\ bState = "Idle"
    /\ \E kind \in Kinds, img \in ClientImageData, alg \in RequestAlgorithms, msg \in Messages :
        /\ kind # "encode" => msg = <<>>
        /\ Receive(kind, img, alg, msg)

\* The response is returned; nothing of the request is kept.
Return ==
    /\ bState \in Final
    /\ bReq' = NoReq
    /\ bState' = "Idle"
    /\ bWork' = NoWork
    /\ bResp' = NoResp
    /\ UNCHANGED cvars

\* The client decodes the image an encode call just returned.
ReceiveDecodeOfEncoded ==
    /\ bState = "Succeeded"
    /\ bReq.kind = "encode"
    /\ \E alg \in Algorithms : Receive("decode", bResp.image_data, alg, <<>>)

Validate ==
    /\ bState = "Received"
    /\ bState' = "Validated"
    /\ UNCHANGED <<bReq, bWork, bResp>>
    /\ UNCHANGED cvars

StartProcessing ==
    /\ bState = "Validated"
    /\ bState' = "Processing"
    /\ bWork' = [NoWork EXCEPT !.stage = "load"]
    /\ UNCHANGED <<bReq, bResp>>
    /\ UNCHANGED cvars

Fail ==
    /\ bState' = "Failed"
    /\ bResp' = FailResponse(bReq.kind, bWork)
    /\ UNCHANGED <<bReq, bWork>>
    /\ UNCHANGED cvars

Step(work) ==
    /\ bWork' = work
    /\ UNCHANGED <<bReq, bState, bResp>>
    /\ UNCHANGED cvars

\* image decoding and algorithm selection
LoadImage ==
    /\ bState = "Processing"
    /\ bWork.stage = "load"
    /\ IF bReq.img.kind = "image" /\ bReq.alg \in Algorithms
       THEN Step([bWork EXCEPT !.stage = bReq.kind, !.img = bReq.img])
       ELSE Fail

FinishCapacity ==
    /\ bState = "Processing"
    /\ bWork.stage = "capacity"
    /\ bState' = "Succeeded"
    /\ bResp' = CapacitySuccess(Capacity(bWork.img, bReq.alg))
    /\ UNCHANGED <<bReq, bWork>>
    /\ UNCHANGED cvars

\* A fresh key pair, AES key and IV per call; an empty message is refused.
EncodeEncrypt ==
    /\ bState = "Processing"
    /\ bWork.stage = "encode"
    /\ IF bReq.msg = <<>>
       THEN Fail
       ELSE \E b \in Bundles : Step([bWork EXCEPT !.stage = "red", !.bundle = b])

EmbedRed ==
    /\ bState = "Processing"
    /\ bWork.stage = "red"
    /\ LET cipher == AesEncrypt(bReq.msg, bWork.bundle.aes, bWork.bundle.iv)
       IN IF Fits(bWork.img, bReq.alg, RedBits(cipher))
          THEN Step([bWork EXCEPT !.stage = "green",
                                  !.img.hidden.present = TRUE,
                                  !.img.hidden.alg = bReq.alg,
                                  !.img.hidden.red = cipher])
          ELSE Fail

EmbedGreen ==
    /\ bState = "Processing"
    /\ bWork.stage = "green"
    /\ IF Fits(bWork.img, bReq.alg, GreenBits)
       THEN Step([bWork EXCEPT !.stage = "blue",
                               !.img.hidden.green = RsaEncrypt(bWork.bundle.aes, bWork.bundle.rsa),
                               !.img.hidden.iv = bWork.bundle.iv])
       ELSE Fail

EmbedBlue ==
    /\ bState = "Processing"
    /\ bWork.stage = "blue"
    /\ IF Fits(bWork.img, bReq.alg, BlueBits)
       THEN /\ bState' = "Succeeded"
            /\ bWork' = [bWork EXCEPT !.stage = "done", !.img.hidden.blue = bWork.bundle.rsa]
            /\ bResp' = EncodeSuccess(bWork'.img)
            /\ UNCHANGED bReq
            /\ UNCHANGED cvars
       ELSE Fail

\* An image that carries nothing decodes to the empty message.
FinishDecode ==
    /\ bState = "Processing"
    /\ bWork.stage = "decode"
    /\ IF Decodable(bWork.img, bReq.alg)
       THEN /\ bState' = "Succeeded"
            /\ bResp' = DecodeSuccess(DecodedMessage(bWork.img, bReq.alg))
            /\ UNCHANGED <<bReq, bWork>>
            /\ UNCHANGED cvars
       ELSE Fail

BNext ==
    \/ ReceiveFromClient
    \/ ReceiveDecodeOfEncoded
    \/ Return
    \/ Validate
    \/ StartProcessing
    \/ LoadImage
    \/ FinishCapacity
    \/ EncodeEncrypt
    \/ EmbedRed
    \/ EmbedGreen
    \/ EmbedBlue
    \/ FinishDecode

SpecBackend == BInit /\ [][BNext]_vars

\* The handler is straight-line code: a request taken up is carried to its end.
SpecBackendFair ==
    /\ BInit
    /\ [][BNext]_vars
    /\ WF_vars(Validate \/ StartProcessing \/ LoadImage \/ FinishCapacity \/ EncodeEncrypt
               \/ EmbedRed \/ EmbedGreen \/ EmbedBlue \/ FinishDecode)

(***************************************************************************)
(* Client: which components are on the page.                               *)
(***************************************************************************)
authVars == <<localStorage, auth, router, loginPage, health>>
panelVars == <<home, encodePanel, decodePanel>>
PanelOps == {"capacity", "encode", "decode"}

ShowsChildrenOnceInitialized(a, path) == a.isInitialized

\* AuthProvider renders its children (Navigation and the page).
ShowsChildren(a, path) == a.isInitialized /\ (Truthy(a.apiKey) \/ path = "/login/")

HomeShown(a, path) == ShowsChildren(a, path) /\ path = "/home/"

LoginShown(a, path) == ShowsChildren(a, path) /\ path = "/login/"

RedirectEffectKeepsFlag(a, path) ==
    LET isLoginPage == path = "/login/"
        authenticated == a.apiKey # Null
    IN IF ~a.isInitialized
       THEN [hasRedirected |-> a.hasRedirected, replace |-> Null]
       ELSE IF ~authenticated /\ ~isLoginPage /\ ~a.hasRedirected
       THEN [hasRedirected |-> TRUE, replace |-> "/login/"]
       ELSE IF authenticated /\ isLoginPage /\ ~a.hasRedirected
       THEN [hasRedirected |-> TRUE, replace |-> "/home/"]
       ELSE [hasRedirected |-> a.hasRedirected, replace |-> Null]

\* The redirect effect of AuthProvider, run with state a on page path.
RedirectEffect(a, path) ==
    LET isLoginPage == path = "/login/"
        authenticated == a.apiKey # Null
    IN IF ~a.isInitialized
       THEN [hasRedirected |-> a.hasRedirected, replace |-> Null]
       ELSE IF ~authenticated /\ ~isLoginPage /\ ~a.hasRedirected
       THEN [hasRedirected |-> TRUE, replace |-> "/login/"]
       ELSE IF authenticated /\ isLoginPage /\ ~a.hasRedirected
       THEN [hasRedirected |-> TRUE, replace |-> "/home/"]
       ELSE IF (authenticated /\ ~isLoginPage) \/ (~authenticated /\ isLoginPage)
       THEN [hasRedirected |-> FALSE, replace |-> Null]
       ELSE [hasRedirected |-> a.hasRedirected, replace |-> Null]

PanelHistCleared(h) ==
    [h EXCEPT !.capacityFrom = NoPair, !.capacityCode = 0, !.lastAsked = NoPair,
              !.encodedCode = 0, !.decodedCode = 0]

\* AuthProvider state a (before its redirect effect) on page path, with the
\* router.replace `replace` issued by the handler: the effect runs, and the
\* component tree is rendered.  lp, n, h: LoginPage, the requests in flight
\* and the history as the handler left them; store: localStorage.
Render(a, path, replace, lp, n, h, store) ==
    LET eff == RedirectEffect(a, path)
        a2 == [a EXCEPT !.hasRedirected = eff.hasRedirected]
        homeStays == home.mounted /\ HomeShown(a2, path)
        loginStays == loginPage.mounted /\ LoginShown(a2, path)
        navStays == health.mounted /\ ShowsChildren(a2, path)
        navMounts == ~health.mounted /\ ShowsChildren(a2, path)
        n1 == Unmount(n, IF home.mounted /\ ~homeStays THEN PanelOps ELSE {}, TRUE)
        n2 == Unmount(n1, IF loginPage.mounted /\ ~loginStays THEN {"login"} ELSE {}, TRUE)
        n3 == Unmount(n2, IF health.mounted /\ ~navStays THEN {"health"} ELSE {}, TRUE)
    IN /\ navMounts => Room(n3)
       /\ auth' = a2
       /\ router' = [pathname |-> path,
                     pending |-> IF eff.replace # Null THEN eff.replace ELSE replace]
       /\ home' = IF homeStays THEN home
                  ELSE IF HomeShown(a2, path) THEN HomeFresh ELSE HomeAbsent
       /\ encodePanel' = IF homeStays THEN encodePanel ELSE EncodePanelAbsent
       /\ decodePanel' = IF homeStays THEN decodePanel ELSE DecodePanelAbsent
       /\ loginPage' = IF loginStays THEN lp
                       ELSE IF LoginShown(a2, path) THEN LoginPageFresh ELSE LoginPageAbsent
       /\ health' = IF navStays THEN health
                    ELSE IF navMounts THEN HealthFresh ELSE HealthAbsent
       /\ net' = IF navMounts
                 THEN Send(n3, Request("health", Null, Null, Null, Null, store))
                 ELSE n3
       /\ hist' = IF homeStays THEN h ELSE PanelHistCleared(h)

(***************************************************************************)
(* AuthProvider, LoginPage, Navigation.                                    *)
(***************************************************************************)
\* The page is loaded: nothing is initialized, localStorage is what an
\* earlier visit left.
CInit ==
    /\ localStorage \in {Null, "k1"}
    /\ auth = AuthLoading
    /\ \E path \in Paths : router = [pathname |-> path, pending |-> Null]
    /\ loginPage = LoginPageAbsent
    /\ health = HealthAbsent
    /\ home = HomeAbsent
    /\ encodePanel = EncodePanelAbsent
    /\ decodePanel = DecodePanelAbsent
    /\ net = EmptyBag
    /\ hist = [HistNone EXCEPT !.savedCode = IF localStorage = Null THEN 0 ELSE 200]
    /\ bReq = NoReq
    /\ bState = "Idle"
    /\ bWork = NoWork
    /\ bResp = NoResp

initializeAuth ==
    /\ ~auth.isInitialized
    /\ Render([auth EXCEPT !.apiKey = getApiKey(localStorage), !.isInitialized = TRUE],
              router.pathname, router.pending, loginPage, net, hist, localStorage)
    /\ UNCHANGED <<localStorage, bvars>>

\* A router.replace takes effect.
Navigate ==
    /\ router.pending # Null
    /\ IF router.pending = router.pathname
       THEN /\ router' = [router EXCEPT !.pending = Null]
            /\ UNCHANGED <<auth, loginPage, health, panelVars, net, hist>>
       ELSE Render(auth, router.pending, Null, loginPage, net, hist, localStorage)
    /\ UNCHANGED <<localStorage, bvars>>

\* The user follows a link of Navigation (the logo to "/", Home to /home/).
FollowLink ==
    /\ health.mounted
    /\ \E path \in {"/", "/home/"} :
        /\ path # router.pathname
        /\ Render(auth, path, router.pending, loginPage, net, hist, localStorage)
    /\ UNCHANGED <<localStorage, bvars>>

\* The browser loads the application anew at path.
Reload ==
    /\ auth.isInitialized
    /\ \E path \in Paths : router' = [pathname |-> path, pending |-> Null]
    /\ auth' = AuthLoading
    /\ loginPage' = LoginPageAbsent
    /\ health' = HealthAbsent
    /\ home' = HomeAbsent
    /\ encodePanel' = EncodePanelAbsent
    /\ decodePanel' = DecodePanelAbsent
    /\ net' = EmptyBag
    /\ hist' = PanelHistCleared(hist)
    /\ UNCHANGED <<localStorage, bvars>>

SetLoginKey ==
    /\ loginPage.mounted
    /\ ~loginPage.isLoading
    /\ \E k \in TypedKeys :
        /\ k # loginPage.apiKey
        /\ loginPage' = [loginPage EXCEPT !.apiKey = k]
    /\ UNCHANGED <<localStorage, auth, router, health, panelVars, net, hist, bvars>>

\* LoginPage.handleSubmit up to the await of AuthProvider.login -> api login.
handleSubmit ==
    /\ loginPage.mounted
    /\ ~loginPage.isLoading
    /\ IF TrimKey(loginPage.apiKey) = ""
       THEN /\ loginPage' = [loginPage EXCEPT !.error = "Please enter an API key"]
            /\ net' = net
       ELSE /\ Room(net)
            /\ loginPage' = [loginPage EXCEPT !.isLoading = TRUE, !.error = Null]
            /\ net' = Send(net, Request("login", loginPage.apiKey, Null, Null, Null, localStorage))
    /\ UNCHANGED <<localStorage, auth, router, health, panelVars, hist, bvars>>

\* The /login response resp to request r: the rest of AuthProvider.login
\* and of handleSubmit.
LoginResponseWith(r, resp) ==
    /\ r.op = "login"
    /\ LET res == ApiResult("login", resp)
       IN IF res.ok
          THEN /\ localStorage' = saveApiKey(localStorage, r.key)
               /\ Render([auth EXCEPT !.apiKey = r.key], router.pathname, "/home/",
                         loginPage, Take(net, r),
                         [hist EXCEPT !.savedCode = res.code, !.loggedOut = FALSE],
                         localStorage')
          ELSE /\ loginPage' = IF r.live
                               THEN [loginPage EXCEPT !.error = res.error, !.isLoading = FALSE]
                               ELSE loginPage
               /\ net' = Take(net, r)
               /\ UNCHANGED <<localStorage, auth, router, health, panelVars, hist>>
    /\ UNCHANGED bvars

LoginResponse ==
    \E r \in InFlight(net) : \E resp \in Responses("login") : LoginResponseWith(r, resp)

\* AuthProvider.logout, from Navigation's button.
logout ==
    /\ health.mounted
    /\ auth.apiKey # Null
    /\ localStorage' = removeApiKey(localStorage)
    /\ Render([auth EXCEPT !.apiKey = Null], router.pathname, "/login/", loginPage, net,
              [hist EXCEPT !.savedCode = 0, !.loggedOut = TRUE], localStorage')
    /\ UNCHANGED bvars

\* useHealthStatus: the interval fires.
checkHealth ==
    /\ health.mounted
    /\ Room(net)
    /\ net' = Send(net, Request("health", Null, Null, Null, Null, localStorage))
    /\ UNCHANGED <<localStorage, auth, router, loginPage, health, panelVars, hist, bvars>>

HealthStatusOfAnyBody(res) == IF res.ok THEN "online" ELSE "offline"

\* The status checkHealth sets for the outcome res of getHealth.
HealthStatusOf(res) == IF res.ok /\ res.value = "healthy" THEN "online" ELSE "offline"

\* The /health response resp to request r: the rest of checkHealth.
HealthResponseWith(r, resp) ==
    /\ r.op = "health"
    /\ health' = IF r.live
                 THEN [health EXCEPT !.status = HealthStatusOf(HealthResult(resp))]
                 ELSE health
    /\ net' = Take(net, r)
    /\ UNCHANGED <<localStorage, auth, router, loginPage, panelVars, hist, bvars>>

HealthResponse ==
    \E r \in InFlight(net) : \E resp \in Responses("health") : HealthResponseWith(r, resp)

AuthNext ==
    \/ initializeAuth
    \/ Navigate
    \/ FollowLink
    \/ Reload
    \/ SetLoginKey
    \/ handleSubmit
    \/ LoginResponse
    \/ logout
    \/ checkHealth
    \/ HealthResponse

(***************************************************************************)
(* Home, EncodePanel, DecodePanel.                                         *)
(***************************************************************************)
\* EncodePanel's effect on [imageData, algorithm]: fetchCapacity up to its await.
FetchCapacityStart(p) == [p EXCEPT !.loadingCapacity = TRUE, !.error = Null]

\* The effect's dependencies [imageData, algorithm]: it runs again when one changed.
EffectRuns(oldData, oldAlgorithm, newData, newAlgorithm) ==
    oldData # newData \/ oldAlgorithm # newAlgorithm

CapacityRequest(img, alg) ==
    Request("capacity", Null, img.data, img.format, alg, localStorage)

\* Home.handleImageUpload, with the render that follows.
handleImageUploadWith(u) ==
    /\ home.mounted
    /\ LET mounts == home.original.data = Null
            refetch == /\ home.mode = "encode"
                       /\ \/ mounts
                          \/ EffectRuns(home.original.data, encodePanel.algorithm,
                                        u.data, encodePanel.algorithm)
            p == IF mounts THEN EncodePanelFresh ELSE encodePanel
        IN /\ refetch => Room(net)
           /\ home' = [home EXCEPT !.original = u, !.encodedImageData = Null]
           /\ encodePanel' = IF refetch THEN FetchCapacityStart(p) ELSE encodePanel
           /\ decodePanel' = IF home.mode = "decode" /\ mounts THEN DecodePanelFresh
                             ELSE decodePanel
           /\ net' = IF refetch THEN Send(net, CapacityRequest(u, p.algorithm)) ELSE net
           /\ hist' = [hist EXCEPT !.encodedCode = 0,
                                   !.lastAsked = IF refetch THEN <<u.data, p.algorithm>> ELSE @]
    /\ UNCHANGED <<authVars, bvars>>

handleImageUpload ==
    /\ home.mounted
    /\ \E u \in Uploads : handleImageUploadWith(u)

\* Home.handleClearImage: both panels leave the page.
\* A handleClearImage without setEncodedImageData(null).
handleClearImageKeepsEncoded ==
    /\ home.mounted
    /\ home.original.data # Null
    /\ home' = [home EXCEPT !.original.data = Null]
    /\ encodePanel' = EncodePanelAbsent
    /\ decodePanel' = DecodePanelAbsent
    /\ net' = Unmount(net, PanelOps, FALSE)
    /\ hist' = PanelHistCleared(hist)
    /\ UNCHANGED <<authVars, bvars>>

handleClearImage ==
    /\ home.mounted
    /\ home.original.data # Null
    /\ home' = [home EXCEPT !.original.data = Null, !.encodedImageData = Null]
    /\ encodePanel' = EncodePanelAbsent
    /\ decodePanel' = DecodePanelAbsent
    /\ net' = Unmount(net, PanelOps, FALSE)
    /\ hist' = PanelHistCleared(hist)
    /\ UNCHANGED <<authVars, bvars>>

\* Home's mode toggle: the panel of the other mode replaces the one shown.
setMode ==
    /\ home.mounted
    /\ \E m \in {"encode", "decode"} :
        /\ m # home.mode
        /\ home' = [home EXCEPT !.mode = m]
        /\ IF home.original.data = Null
           THEN UNCHANGED <<encodePanel, decodePanel, net, hist>>
           ELSE IF m = "encode"
           THEN LET n1 == Unmount(net, {"decode"}, FALSE)
                IN /\ Room(n1)
                   /\ encodePanel' = FetchCapacityStart(EncodePanelFresh)
                   /\ decodePanel' = DecodePanelAbsent
                   /\ net' = Send(n1, CapacityRequest(home.original, EncodePanelFresh.algorithm))
                   /\ hist' = [hist EXCEPT !.decodedCode = 0,
                                  !.lastAsked = <<home.original.data, EncodePanelFresh.algorithm>>]
           ELSE /\ encodePanel' = EncodePanelAbsent
                /\ decodePanel' = DecodePanelFresh
                /\ net' = Unmount(net, {"capacity", "encode"}, FALSE)
                /\ hist' = [hist EXCEPT !.capacityFrom = NoPair, !.capacityCode = 0,
                                        !.lastAsked = NoPair]
    /\ UNCHANGED <<authVars, bvars>>

\* EncodePanel's AlgorithmSelector: setAlgorithm and the effect it triggers.
setAlgorithm ==
    /\ encodePanel.mounted
    /\ \E a \in Algorithms :
        LET p == [encodePanel EXCEPT !.algorithm = a]
            refetch == EffectRuns(home.original.data, encodePanel.algorithm,
                                  home.original.data, a)
        IN /\ a # encodePanel.algorithm
           /\ refetch => Room(net)
           /\ encodePanel' = IF refetch THEN FetchCapacityStart(p) ELSE p
           /\ net' = IF refetch THEN Send(net, CapacityRequest(home.original, a)) ELSE net
           /\ hist' = IF refetch THEN [hist EXCEPT !.lastAsked = <<home.original.data, a>>]
                      ELSE hist
    /\ UNCHANGED <<home, decodePanel, authVars, bvars>>

setMessage ==
    /\ encodePanel.mounted
    /\ \E m \in TypedMessages :
        /\ m # encodePanel.message
        /\ encodePanel' = [encodePanel EXCEPT !.message = m]
    /\ UNCHANGED <<home, decodePanel, net, hist, authVars, bvars>>

TooLong(capacity) ==
    "Message is too long! Maximum " \o ToString(capacity) \o " characters allowed."

ExceedsTruthy(capacity, message) ==
    capacity # NoCapacity /\ capacity # 0 /\ Len(message) > capacity

\* capacity !== null && message.length > capacity
Exceeds(capacity, message) == capacity # NoCapacity /\ Len(message) > capacity

\* handleEncode up to its await: the panel it leaves and whether it sends.
HandleEncodeStart(p) ==
    IF Trim(p.message) = <<>>
    THEN [panel |-> [p EXCEPT !.error = "Please enter a message to encode"], sends |-> FALSE]
    ELSE IF Exceeds(p.capacity, p.message)
    THEN [panel |-> [p EXCEPT !.error = TooLong(p.capacity)], sends |-> FALSE]
    ELSE [panel |-> [p EXCEPT !.loading = TRUE, !.error = Null], sends |-> TRUE]

EncodeRequest ==
    Request("encode", Null, home.original.data, home.original.format, encodePanel.algorithm,
            localStorage)

handleEncode ==
    /\ encodePanel.mounted
    /\ LET out == HandleEncodeStart(encodePanel)
       IN /\ out.sends => Room(net)
          /\ encodePanel' = out.panel
          /\ net' = IF out.sends THEN Send(net, EncodeRequest) ELSE net
    /\ UNCHANGED <<home, decodePanel, hist, authVars, bvars>>

\* A button that stays enabled while an encode request is outstanding.
EncodeDisabledNotLoading(p) == Trim(p.message) = <<>> \/ Exceeds(p.capacity, p.message)

\* disabled={loading || !message.trim() || isOverCapacity}
EncodeDisabled(p) == p.loading \/ Trim(p.message) = <<>> \/ Exceeds(p.capacity, p.message)

\* The user clicks "Encode Message".
ClickEncode ==
    /\ encodePanel.mounted
    /\ ~EncodeDisabled(encodePanel)
    /\ handleEncode

\* The /image/capacity response: the rest of fetchCapacity.
CapacityResponseWith(r, resp) ==
        /\ r.op = "capacity"
        /\ LET res == ApiResult("capacity", resp)
           IN IF r.live
              THEN /\ encodePanel' =
                        IF res.ok
                        THEN [encodePanel EXCEPT !.capacity = res.value, !.loadingCapacity = FALSE]
                        ELSE [encodePanel EXCEPT !.error = res.error, !.capacity = NoCapacity,
                                                 !.loadingCapacity = FALSE]
                   /\ hist' = IF res.ok
                              THEN [hist EXCEPT !.capacityFrom = <<r.imageData, r.algorithm>>,
                                                !.capacityCode = res.code]
                              ELSE [hist EXCEPT !.capacityFrom = NoPair, !.capacityCode = 0]
              ELSE UNCHANGED <<encodePanel, hist>>
        /\ net' = Take(net, r)
        /\ UNCHANGED <<home, decodePanel, authVars, bvars>>

CapacityResponse ==
    \E r \in InFlight(net) : \E resp \in Responses("capacity") :
        CapacityResponseWith(r, resp)

\* The /image/encode response: the rest of handleEncode, Home.handleEncodedImage.
\* A success branch without setMessage("").
EncodeOutcomeKeepsMessage(p, res) ==
    IF res.ok
    THEN [p EXCEPT !.error = Null, !.loading = FALSE]
    ELSE [p EXCEPT !.error = res.error, !.loading = FALSE]

\* The panel after the await in handleEncode: success, catch, finally.
EncodeOutcome(p, res) ==
    IF res.ok
    THEN [p EXCEPT !.message = <<>>, !.error = Null, !.loading = FALSE]
    ELSE [p EXCEPT !.error = res.error, !.loading = FALSE]

EncodeResponseWith(r, resp) ==
        /\ r.op = "encode"
        /\ LET res == ApiResult("encode", resp)
           IN /\ home' = IF res.ok /\ r.homeLive
                         THEN [home EXCEPT !.encodedImageData = res.value,
                                           !.encodedImageFormat = r.imageFormat]
                         ELSE home
              /\ hist' = IF res.ok /\ r.homeLive THEN [hist EXCEPT !.encodedCode = res.code]
                         ELSE hist
              /\ encodePanel' = IF r.live THEN EncodeOutcome(encodePanel, res)
                                ELSE encodePanel
        /\ net' = Take(net, r)
        /\ UNCHANGED <<decodePanel, authVars, bvars>>

EncodeResponse ==
    \E r \in InFlight(net) : \E resp \in Responses("encode") :
        EncodeResponseWith(r, resp)

\* DecodePanel's AlgorithmSelector.
setDecodeAlgorithm ==
    /\ decodePanel.mounted
    /\ \E a \in Algorithms :
        /\ a # decodePanel.algorithm
        /\ decodePanel' = [decodePanel EXCEPT !.algorithm = a]
    /\ UNCHANGED <<home, encodePanel, net, hist, authVars, bvars>>

\* handleDecode up to its await; the button is disabled while loading.
\* A handleDecode without setDecodedMessage(null).
handleDecodeKeepsMessage ==
    /\ decodePanel.mounted
    /\ ~decodePanel.loading
    /\ Room(net)
    /\ decodePanel' = [decodePanel EXCEPT !.loading = TRUE, !.error = Null]
    /\ net' = Send(net, Request("decode", Null, home.original.data, home.original.format,
                                decodePanel.algorithm, localStorage))
    /\ hist' = [hist EXCEPT !.decodedCode = 0]
    /\ UNCHANGED <<home, encodePanel, authVars, bvars>>

handleDecode ==
    /\ decodePanel.mounted
    /\ ~decodePanel.loading
    /\ Room(net)
    /\ decodePanel' = [decodePanel EXCEPT !.loading = TRUE, !.error = Null,
                                          !.decodedMessage = Null]
    /\ net' = Send(net, Request("decode", Null, home.original.data, home.original.format,
                                decodePanel.algorithm, localStorage))
    /\ hist' = [hist EXCEPT !.decodedCode = 0]
    /\ UNCHANGED <<home, encodePanel, authVars, bvars>>

DecodeOutcomeTruthy(p, res) ==
    IF res.ok /\ Truthy(res.value)
    THEN [p EXCEPT !.decodedMessage = res.value, !.error = Null, !.loading = FALSE]
    ELSE [p EXCEPT !.error = IF res.ok THEN "Failed to decode image" ELSE res.error,
                   !.decodedMessage = Null, !.loading = FALSE]

\* handleDecode after its await: the panel for the outcome res of decodeImage.
DecodeOutcome(p, res) ==
    IF res.ok
    THEN [p EXCEPT !.decodedMessage = res.value, !.error = Null, !.loading = FALSE]
    ELSE [p EXCEPT !.error = res.error, !.decodedMessage = Null, !.loading = FALSE]

\* The /image/decode response resp to request r: the rest of handleDecode.
DecodeResponseWith(r, resp) ==
    /\ r.op = "decode"
    /\ LET res == ApiResult("decode", resp)
       IN IF r.live
          THEN /\ decodePanel' = DecodeOutcome(decodePanel, res)
               /\ hist' = [hist EXCEPT !.decodedCode = IF res.ok THEN res.code ELSE 0]
          ELSE UNCHANGED <<decodePanel, hist>>
    /\ net' = Take(net, r)
    /\ UNCHANGED <<home, encodePanel, authVars, bvars>>

DecodeResponse ==
    \E r \in InFlight(net) : \E resp \in Responses("decode") : DecodeResponseWith(r, resp)

\* What DecodePanel shows below its button for the decoded message.
DecodedMessageDisplay(p) ==
    IF p.decodedMessage = Null THEN Null
    ELSE IF Truthy(p.decodedMessage) THEN p.decodedMessage
    ELSE "No message found in image"

PanelNext ==
    \/ handleImageUpload
    \/ handleClearImage
    \/ setMode
    \/ setAlgorithm
    \/ setMessage
    \/ ClickEncode
    \/ CapacityResponse
    \/ EncodeResponse
    \/ setDecodeAlgorithm
    \/ handleDecode
    \/ DecodeResponse

\* A logged-in user on /home/ after the page has loaded.
LoggedInAtHome ==
    /\ localStorage = "k1"
    /\ auth = [apiKey |-> "k1", isInitialized |-> TRUE, hasRedirected |-> FALSE]
    /\ router = [pathname |-> "/home/", pending |-> Null]
    /\ loginPage = LoginPageAbsent
    /\ health = [mounted |-> TRUE, status |-> "online"]
    /\ bReq = NoReq
    /\ bState = "Idle"
    /\ bWork = NoWork
    /\ bResp = NoResp

\* Home before an image is uploaded.
PanelInit ==
    /\ LoggedInAtHome
    /\ home = HomeFresh
    /\ encodePanel = EncodePanelAbsent
    /\ decodePanel = DecodePanelAbsent
    /\ net = EmptyBag
    /\ hist = [HistNone EXCEPT !.savedCode = 200]

\* The panels driven through the page.
SpecPanel == PanelInit /\ [][PanelNext]_vars

\* EncodePanel at rest with any message typed and any capacity held (none:
\* the capacity request failed and the error was cleared since).
HandlerInit ==
    /\ LoggedInAtHome
    /\ \E u \in Uploads, m \in TypedMessages, c \in CapacityValues \cup {NoCapacity} :
        /\ home = [HomeFresh EXCEPT !.original = u]
        /\ encodePanel = [EncodePanelFresh EXCEPT !.message = m, !.capacity = c]
        /\ hist = [HistNone EXCEPT
                     !.savedCode = 200,
                     !.lastAsked = <<u.data, EncodePanelFresh.algorithm>>,
                     !.capacityFrom = IF c = NoCapacity THEN NoPair
                                      ELSE <<u.data, EncodePanelFresh.algorithm>>,
                     !.capacityCode = IF c = NoCapacity THEN 0 ELSE 200]
    /\ decodePanel = DecodePanelAbsent
    /\ net = EmptyBag

\* handleEncode called in every state of the panel, also those in which its
\* button is disabled.
SpecHandler == HandlerInit /\ [][handleEncode \/ setMessage \/ EncodeResponse]_vars

\* Home with its image and mode handlers and the encode round trip.
HomeNext ==
    \/ handleImageUpload
    \/ handleClearImage
    \/ setMode
    \/ setMessage
    \/ ClickEncode
    \/ CapacityResponse
    \/ EncodeResponse

SpecHome == PanelInit /\ [][HomeNext]_vars

(***************************************************************************)
(* components/ImagePanel.tsx: handleFileChange.  A file is its MIME type,  *)
(* its name and its content in base64; strings are handled character by    *)
(* character.  hist.alert is the text of the last window.alert.             *)
(***************************************************************************)
FileTypes == {"image/png", "image/jpeg", "image/JPEG", "image/", "text/plain"}
FileNames == {"one.png", "a.tar.gz", "noext"}
FileContents == {"img1", ""}
Files == [type : FileTypes, name : FileNames, content : FileContents]

Char(s, i) == SubSeq(s, i, i)

\* String.prototype.startsWith
startsWith(s, prefix) == Len(s) >= Len(prefix) /\ SubSeq(s, 1, Len(prefix)) = prefix

\* The first index >= from at which s has the character c, 0 if none.
IndexFrom(s, c, from) ==
    LET at == {i \in from..Len(s) : Char(s, i) = c}
    IN IF at = {} THEN 0 ELSE CHOOSE i \in at : \A j \in at : i <= j

\* s.split(sep)[1]: the piece between the first and the second sep; Null
\* (undefined) when s has no sep.
SplitAt1(s, sep) ==
    LET i == IndexFrom(s, sep, 1)
        j == IF i = 0 THEN 0 ELSE IndexFrom(s, sep, i + 1)
    IN IF i = 0 THEN Null
       ELSE SubSeq(s, i + 1, IF j = 0 THEN Len(s) ELSE j - 1)

UpperCase == "ABCDEFGHIJKLMNOPQRSTUVWXYZ"
LowerCase == "abcdefghijklmnopqrstuvwxyz"

\* String.prototype.toLowerCase
RECURSIVE toLowerCase(_)
toLowerCase(s) ==
    IF s = "" THEN ""
    ELSE LET c == Char(s, 1)
             up == {i \in 1..Len(UpperCase) : Char(UpperCase, i) = c}
         IN (IF up = {} THEN c ELSE Char(LowerCase, CHOOSE i \in up : TRUE))
            \o toLowerCase(SubSeq(s, 2, Len(s)))

\* name.replace(/\.[^/.]+$/, ""): a final "." followed by one or more
\* characters other than "." and "/" is removed.
ReplaceExtension(name) ==
    LET dots == {i \in 1..Len(name) : Char(name, i) = "."}
        last == IF dots = {} THEN 0 ELSE CHOOSE i \in dots : \A j \in dots : j <= i
    IN IF last = 0 \/ last = Len(name) THEN name
       ELSE IF \E i \in (last + 1)..Len(name) : Char(name, i) = "/" THEN name
       ELSE SubSeq(name, 1, last - 1)

\* A format that is not normalised.
FormatOfKeepsJpeg(type) ==
    LET sub == SplitAt1(type, "/")
    IN toLowerCase(IF Truthy(sub) THEN sub ELSE "png")

\* (file.type.split("/")[1] || "png").toLowerCase(), "jpeg" -> "jpg"
FormatOf(type) ==
    LET sub == SplitAt1(type, "/")
        format == toLowerCase(IF Truthy(sub) THEN sub ELSE "png")
    IN IF format = "jpeg" THEN "jpg" ELSE format

\* FileReader.readAsDataURL: the result handed to onload.  An empty file
\* gives the prefix alone or "data:", depending on the browser.
DataURLs(file) ==
    {"data:" \o file.type \o ";base64," \o file.content}
    \cup (IF file.content = "" THEN {"data:"} ELSE {})

Alert(text) ==
    /\ hist' = [hist EXCEPT !.alert = text]
    /\ UNCHANGED <<home, encodePanel, decodePanel, net, authVars, bvars>>

handleFileChangeWith(file, result) ==
    /\ home.mounted
    /\ IF ~startsWith(file.type, "image/")
       THEN Alert("Please upload an image file")
       ELSE LET base64 == SplitAt1(result, ",")
            IN IF ~Truthy(base64)
               THEN Alert("Failed to process image data")
               ELSE handleImageUploadWith([data |-> base64, format |-> FormatOf(file.type),
                                           filename |-> ReplaceExtension(file.name)])

handleFileChange ==
    /\ home.mounted
    /\ \E file \in Files : \E result \in DataURLs(file) : handleFileChangeWith(file, result)

\* The file input, the Clear button (handleClear calls onClear) and the
\* capacity answers of the EncodePanel an upload mounts.
ImagePanelNext ==
    \/ handleFileChange
    \/ handleClearImage
    \/ CapacityResponse

SpecImagePanel == PanelInit /\ [][ImagePanelNext]_vars

(***************************************************************************)
(* lib/auth.ts called directly, as its tests do.  The callers are effects  *)
(* and handlers, which run in the browser only: localStorage exists.       *)
(* hist.calls is the sequence of calls made.                               *)
(***************************************************************************)
StoredKeys == ApiKeys \cup {""}

StoreInit ==
    /\ ClientIdle
    /\ bReq = NoReq
    /\ bState = "Idle"
    /\ bWork = NoWork
    /\ bResp = NoResp

CallSaveApiKey ==
    /\ Len(hist.calls) < MaxCalls
    /\ \E k \in StoredKeys :
        /\ localStorage' = saveApiKey(localStorage, k)
        /\ hist' = [hist EXCEPT !.calls = Append(@, [fn |-> "saveApiKey", arg |-> k])]
    /\ UNCHANGED <<auth, router, loginPage, health, panelVars, net, bvars>>

CallRemoveApiKey ==
    /\ Len(hist.calls) < MaxCalls
    /\ localStorage' = removeApiKey(localStorage)
    /\ hist' = [hist EXCEPT !.calls = Append(@, [fn |-> "removeApiKey", arg |-> Null])]
    /\ UNCHANGED <<auth, router, loginPage, health, panelVars, net, bvars>>

SpecStore == StoreInit /\ [][CallSaveApiKey \/ CallRemoveApiKey]_vars

\* DecodePanel just mounted for an uploaded image.
DecodeInit ==
    /\ LoggedInAtHome
    /\ \E u \in Uploads : home = [HomeFresh EXCEPT !.mode = "decode", !.original = u]
    /\ encodePanel = EncodePanelAbsent
    /\ decodePanel = DecodePanelFresh
    /\ net = EmptyBag
    /\ hist = [HistNone EXCEPT !.savedCode = 200]

DecodeNext ==
    \/ handleImageUpload
    \/ handleClearImage
    \/ setMode
    \/ CapacityResponse
    \/ setDecodeAlgorithm
    \/ handleDecode
    \/ DecodeResponse

\* Home without encoding: DecodePanel, the image it is given, and the mode
\* toggle that replaces it by a fresh EncodePanel and back.
SpecDecode == DecodeInit /\ [][DecodeNext]_vars

\* AuthProvider, LoginPage and Navigation, from the page load.
SpecAuth == CInit /\ [][AuthNext]_vars

\* The user submits the login form when no earlier /login call is pending.
SubmitWhenIdle ==
    /\ \A r \in InFlight(net) : r.op # "login"
    /\ handleSubmit

\* AuthNext without the repeated health checks of the interval (the check
\* made when Navigation mounts stays), one /login call at a time.
SessionNext ==
    \/ initializeAuth
    \/ Navigate
    \/ FollowLink
    \/ Reload
    \/ SetLoginKey
    \/ SubmitWhenIdle
    \/ LoginResponse
    \/ logout
    \/ HealthResponse

\* A session of page loads, navigation, logins and logouts.
SpecSession == CInit /\ [][SessionNext]_vars

\* A session in which a router.replace that stays pending takes effect and
\* a request in flight completes (axios gives up after its timeout).
SpecAuthFair ==
    /\ SpecSession
    /\ WF_vars(Navigate)
    /\ WF_vars(LoginResponse)
    /\ WF_vars(HealthResponse)

(***************************************************************************)
(* Backend claims.                                                         *)
(***************************************************************************)
EncodeDone ==
    /\ bState \in Final
    /\ bReq.kind = "encode"
    /\ bReq.img.kind = "image"
    /\ bReq.alg \in Algorithms

\* C1: round trip.  For every supported image, every algorithm and every
\* message no longer than capacity(image, algorithm), decoding what encode
\* returned gives the message back.
C1_RoundTrip ==
    (EncodeDone /\ Len(bReq.msg) <= Capacity(bReq.img, bReq.alg))
        => DecodedMessage(bResp.image_data, bReq.alg) = bReq.msg

\* C2: capacity rejection.  An encode request whose message is longer than
\* the capacity, or one of whose payloads needs more bits than the channel
\* has pixels (blocks), ends Failed with the failure response and no image,
\* whatever the client checked before sending it.
C2_TooLong ==
    \/ Len(bReq.msg) > Capacity(bReq.img, bReq.alg)
    \/ BitsPerChar * Len(bReq.msg) > ChannelBits(bReq.img, bReq.alg)
    \/ GreenBits > ChannelBits(bReq.img, bReq.alg)
    \/ BlueBits > ChannelBits(bReq.img, bReq.alg)

C2_CapacityRejection ==
    (EncodeDone /\ C2_TooLong)
        => /\ bState = "Failed"
           /\ bResp.code = CodeError
           /\ bResp.image_data = EmptyData

C2_Witness ==
    /\ EncodeDone
    /\ bState = "Failed"
    /\ bWork.stage = "red"
    /\ Len(bReq.msg) > Capacity(bReq.img, bReq.alg)

\* C3: every request moves Received -> Validated -> Processing and ends in
\* exactly one of Succeeded or Failed; a Failed request returns code 500 and
\* an empty payload field, a Succeeded one code 200 and the whole result,
\* and nothing is returned before the end.
C3_Moves ==
    {<<"Idle", "Received">>, <<"Received", "Validated">>, <<"Validated", "Processing">>,
     <<"Processing", "Succeeded">>, <<"Processing", "Failed">>,
     <<"Succeeded", "Idle">>, <<"Failed", "Idle">>, <<"Succeeded", "Received">>}

C3_Response ==
    /\ bState = "Failed" =>
          /\ bResp.code = CodeError
          /\ bResp.image_data = EmptyData
          /\ bResp.decoded_message = <<>>
          /\ bResp.capacity_characters = 0
    /\ bState = "Succeeded" =>
          /\ bResp.code = CodeOk
          /\ bReq.kind = "encode" =>
                /\ bWork.stage = "done"
                /\ bResp.image_data = bWork.img
                /\ bResp.image_data.hidden.present
          /\ bReq.kind # "encode" => bResp.image_data = EmptyData
    /\ bState \notin Final => bResp = NoResp

C3_RequestStates ==
    /\ []C3_Response
    /\ [][bState' # bState => <<bState, bState'>> \in C3_Moves]_vars
    /\ [][~(bState \in Final /\ bState' \in Final)]_vars
    /\ (bState = "Received") ~> (bState \in Final)

C3_Witness ==
    /\ bState = "Failed"
    /\ bReq.kind = "encode"
    /\ bWork.stage = "green"
    /\ bWork.img.hidden.present

\* C4: the LSB capacity is floor(width * height / 7): the largest number of
\* 7-bit characters whose bits fit one bit per pixel; 585 for 64 x 64.
C4_LsbCapacity ==
    (bState = "Succeeded" /\ bReq.kind = "capacity" /\ bReq.alg = "lsb")
        => LET n  == bResp.capacity_characters
               px == bReq.img.w * bReq.img.h
           IN /\ 7 * n <= px
              /\ px < 7 * (n + 1)
              /\ (bReq.img.w = 64 /\ bReq.img.h = 64) => n = 585

C4_Witness ==
    /\ bState = "Succeeded"
    /\ bReq.kind = "capacity"
    /\ bReq.alg = "lsb"
    /\ bReq.img.w = 64
    /\ bReq.img.h = 64
    /\ bResp.capacity_characters = 585

\* C6: capacity monotonicity.  The LSB capacity is a function of
\* width * height that never decreases and stays within one character of
\* (width * height) / 7; the DCT capacity is a function of the number of
\* whole blocks floor(width / 8) * floor(height / 8) that never decreases.
C6_WholeBlocks(w, h) == (w \div 8) * (h \div 8)

C6_CapacityMonotone ==
    (bState = "Succeeded" /\ bReq.kind = "capacity")
        => \A w2 \in Dims, h2 \in Dims :
              LET n  == bResp.capacity_characters
                  n2 == Capacity(PlainImage(w2, h2), bReq.alg)
                  w  == bReq.img.w
                  h  == bReq.img.h
              IN IF bReq.alg = "lsb"
                 THEN /\ w * h <= w2 * h2 => n <= n2
                      /\ w * h = w2 * h2 => n = n2
                      /\ 7 * n <= w * h
                      /\ w * h < 7 * n + 7
                 ELSE /\ C6_WholeBlocks(w, h) <= C6_WholeBlocks(w2, h2) => n <= n2
                      /\ C6_WholeBlocks(w, h) = C6_WholeBlocks(w2, h2) => n = n2

C6_Witness ==
    /\ bState = "Succeeded"
    /\ bReq.kind = "capacity"
    /\ bReq.alg = "dct"
    /\ bReq.img.w = 64
    /\ bReq.img.h = 64
    /\ bResp.capacity_characters = 8

(***************************************************************************)
(* Client claims.                                                          *)
(***************************************************************************)
\* An encode request leaves the panel in this step.
EncodeSent ==
    \E r \in InFlight(net') : r.op = "encode" /\ r.live /\ CopiesIn(r, net') > CopiesIn(r, net)

AllSpaces(m) == \A i \in 1..Len(m) : m[i] = " "

\* C7: client pre-flight check.  EncodePanel sends an encode request only
\* when the message is not blank and, when a capacity is held, no longer
\* than it; called with a blank message handleEncode sets 'Please enter a
\* message to encode', with a message longer than the held capacity
\* 'Message is too long! ...', and in both cases it sends nothing.
C7_PreFlight ==
    [][/\ EncodeSent =>
            /\ ~AllSpaces(encodePanel.message)
            /\ encodePanel.capacity # NoCapacity =>
                    Len(encodePanel.message) <= encodePanel.capacity
       /\ (handleEncode /\ AllSpaces(encodePanel.message)) =>
            /\ encodePanel'.error = "Please enter a message to encode"
            /\ net' = net
       /\ (handleEncode /\ ~AllSpaces(encodePanel.message)
              /\ encodePanel.capacity # NoCapacity
              /\ Len(encodePanel.message) > encodePanel.capacity) =>
            /\ encodePanel'.error = "Message is too long! Maximum "
                                        \o ToString(encodePanel.capacity)
                                        \o " characters allowed."
            /\ net' = net
      ]_vars

C7_Witness ==
    /\ encodePanel.mounted
    /\ encodePanel.capacity = 0
    /\ encodePanel.message = <<"a">>
    /\ encodePanel.error = "Message is too long! Maximum 0 characters allowed."
    /\ \A r \in InFlight(net) : r.op # "encode"

CurrentPair == <<home.original.data, encodePanel.algorithm>>

\* C8: an encode request for (image, algorithm) is sent only
\* after a capacity response for that image and algorithm was received, and
\* the length was checked against that response: the capacity held when the
\* request is sent came from a response for the current image and algorithm.
C8_CapacityAnsweredBeforeEncode ==
    [][EncodeSent =>
          /\ encodePanel.capacity # NoCapacity
          /\ hist.capacityFrom = CurrentPair]_vars

\* What the panel does guarantee: its latest capacity request is always for
\* the current image and algorithm, so an encode request for (image,
\* algorithm) is sent only after a capacity request for that image and
\* algorithm was sent; the length is checked against the capacity held at
\* the click, when one is held (whatever response it came from).
CapacityAskedBeforeEncode ==
    /\ [](encodePanel.mounted => hist.lastAsked = CurrentPair)
    /\ [][EncodeSent =>
            /\ hist.lastAsked = CurrentPair
            /\ \E r \in InFlight(net') :
                  /\ r.op = "encode"
                  /\ <<r.imageData, r.algorithm>> = CurrentPair
                  /\ CopiesIn(r, net') > CopiesIn(r, net)
            /\ encodePanel.capacity # NoCapacity =>
                    Len(encodePanel.message) <= encodePanel.capacity]_vars

\* An encode request in flight beside the capacity request for its image and
\* algorithm, no capacity held.
EncodeOvertakesCapacity ==
    /\ encodePanel.mounted
    /\ encodePanel.capacity = NoCapacity
    /\ \E r \in InFlight(net) : \E q \in InFlight(net) :
          /\ r.op = "encode" /\ r.live
          /\ q.op = "capacity"
          /\ <<q.imageData, q.algorithm>> = <<r.imageData, r.algorithm>>

\* C9: a failure response is never delivered as a result.  login,
\* encodeImage, decodeImage and getImageCapacity resolve only for a body
\* whose code is in 200..299; the capacity held, the encoded image Home
\* holds and the decoded message each came from such a response.
C9_NoFailureDelivered ==
    /\ \A op \in {"login", "encode", "decode", "capacity"} : \A resp \in Responses(op) :
          ApiResult(op, resp).ok <=>
              (resp.transport = "ok" /\ resp.code \in 200..299)
    /\ encodePanel.capacity # NoCapacity => hist.capacityCode \in 200..299
    /\ home.encodedImageData # Null => hist.encodedCode \in 200..299
    /\ decodePanel.decodedMessage # Null => hist.decodedCode \in 200..299

C9_Witness ==
    /\ encodePanel.mounted
    /\ ~encodePanel.loadingCapacity
    /\ encodePanel.capacity = NoCapacity
    /\ encodePanel.error = "An unexpected error occurred"
    /\ home.encodedImageData = Null
    /\ net = EmptyBag

LoginAccepted(resp) == resp.transport = "ok" /\ resp.code \in 200..299

\* C11: AuthProvider.login(key) saves key to localStorage and sets the
\* context's apiKey only after the /login call succeeded; when the call
\* rejects, localStorage and the context's apiKey are unchanged, no
\* redirect is issued, and the rejection reaches the caller (handleSubmit
\* shows an error and stops loading, when LoginPage is still mounted).
C11_LoginSavesOnlyOnSuccess ==
    [][/\ \A r \in InFlight(net) : \A resp \in Responses("login") :
             LoginResponseWith(r, resp) =>
                IF LoginAccepted(resp)
                THEN localStorage' = r.key /\ auth'.apiKey = r.key
                ELSE /\ localStorage' = localStorage
                     /\ auth'.apiKey = auth.apiKey
                     /\ router' = router
                     /\ r.live => /\ loginPage'.error \notin {Null, ""}
                                  /\ ~loginPage'.isLoading
       /\ (localStorage' # localStorage /\ localStorage' # Null) =>
             \E r \in InFlight(net) : \E resp \in Responses("login") :
                 /\ LoginResponseWith(r, resp)
                 /\ LoginAccepted(resp)
                 /\ localStorage' = r.key
       /\ (auth'.apiKey # auth.apiKey /\ auth'.apiKey # Null) =>
             \/ ~auth.isInitialized /\ auth'.apiKey = localStorage
             \/ \E r \in InFlight(net) : \E resp \in Responses("login") :
                    /\ LoginResponseWith(r, resp)
                    /\ LoginAccepted(resp)
                    /\ auth'.apiKey = r.key]_vars

C11_Witness ==
    /\ loginPage.mounted
    /\ loginPage.apiKey = "k2"
    /\ loginPage.error = "Invalid API key"
    /\ ~loginPage.isLoading
    /\ localStorage = Null
    /\ auth.apiKey = Null
    /\ router = [pathname |-> "/login/", pending |-> Null]
    /\ \A r \in InFlight(net) : r.op # "login"

\* C12: route protection.  After any sequence of initialization, login,
\* logout and navigation, the children of AuthProvider (Navigation and the
\* page of the pathname) are rendered exactly when it is initialized and
\* a key is held or the pathname is "/login/"; otherwise nothing but a
\* loading screen is, so Home and its panels are rendered only with a key.
C12_RouteProtection ==
    LET childrenAllowed ==
            /\ auth.isInitialized
            /\ (auth.apiKey \notin {Null, ""} \/ router.pathname = "/login/")
    IN /\ health.mounted <=> childrenAllowed
       /\ home.mounted <=> (childrenAllowed /\ router.pathname = "/home/")
       /\ loginPage.mounted <=> (childrenAllowed /\ router.pathname = "/login/")
       /\ (encodePanel.mounted \/ decodePanel.mounted) => home.mounted
       /\ home.mounted => auth.apiKey \in ApiKeys

C12_Witness ==
    /\ auth.isInitialized
    /\ auth.apiKey = Null
    /\ hist.loggedOut
    /\ router.pathname = "/home/"
    /\ ~home.mounted
    /\ ~health.mounted

\* C13: redirects settle.  Once AuthProvider is initialized, a user who
\* stays without a stored key on a page other than /login/ is eventually on
\* /login/, and a user who stays with a stored key on /login/ is eventually
\* on /home/ (a reload, a login or a logout in between starts anew).
C13_RedirectsSettle ==
    /\ (auth.isInitialized /\ localStorage = Null /\ router.pathname # "/login/")
          ~> (router.pathname = "/login/" \/ ~auth.isInitialized \/ localStorage # Null)
    /\ (auth.isInitialized /\ localStorage # Null /\ router.pathname = "/login/")
          ~> (router.pathname = "/home/" \/ ~auth.isInitialized \/ localStorage = Null)

C13_Witness ==
    /\ auth.isInitialized
    /\ localStorage = "k1"
    /\ ~hist.loggedOut
    /\ router = [pathname |-> "/login/", pending |-> "/home/"]
    /\ auth.hasRedirected

\* Request r is sent in this step.
Sent(r) == r.live /\ CopiesIn(r, net') > CopiesIn(r, net)

\* The step is a logout: the initialized context loses its key.
LoggedOutNow ==
    /\ auth.isInitialized /\ auth.apiKey # Null
    /\ auth'.isInitialized /\ auth'.apiKey = Null

\* C14: logout removes the stored key, sets the context to unauthenticated
\* and redirects to /login/; from then on no request carries an X-API-KEY
\* header until a login call succeeds.
C14_NoKeyAfterLogout ==
    [][/\ LoggedOutNow =>
             (localStorage' = Null /\ hist'.loggedOut /\ router'.pending = "/login/")
       /\ (hist.loggedOut /\ hist'.loggedOut) =>
             \A r \in InFlight(net') : Sent(r) => r.header = Null]_vars

\* What holds instead: logout removes the stored key, sets the context to
\* unauthenticated and redirects to /login/; until a login call succeeds
\* nothing is stored, no key is injected, and the only requests that carry
\* an X-API-KEY header are the /login calls, which carry the key supplied
\* to them.
C14_OnlyLoginCarriesKey ==
    /\ [](hist.loggedOut => (localStorage = Null /\ auth.apiKey = Null))
    /\ [][/\ LoggedOutNow =>
               (localStorage' = Null /\ hist'.loggedOut /\ router'.pending = "/login/")
         /\ (hist.loggedOut /\ hist'.loggedOut) =>
               \A r \in InFlight(net') :
                   Sent(r) => /\ r.stored = Null
                              /\ r.header = IF r.op = "login" THEN r.key ELSE Null]_vars

C14_Witness ==
    /\ hist.loggedOut
    /\ localStorage = Null
    /\ router.pathname = "/login/"
    /\ \E r \in InFlight(net) : \E q \in InFlight(net) :
          /\ r.op = "login" /\ r.live /\ r.stored = Null /\ r.header = "k2"
          /\ q.op = "health" /\ q.live /\ q.stored = Null /\ q.header = Null

\* The argument of the last saveApiKey when no removeApiKey followed it.
LastSaved(calls) ==
    IF calls = <<>> THEN Null
    ELSE IF calls[Len(calls)].fn = "saveApiKey" THEN calls[Len(calls)].arg
    ELSE Null

\* C15: after any sequence of saveApiKey(k) and removeApiKey() calls,
\* getApiKey() returns the argument of the last saveApiKey if no
\* removeApiKey followed it and null otherwise; isAuthenticated() is true
\* exactly when getApiKey() is not null; removeApiKey on an empty store
\* changes nothing (and the call returns: the store has a next state).
C15_KeyStorage ==
    /\ [](/\ getApiKey(localStorage) = LastSaved(hist.calls)
          /\ isAuthenticated(localStorage) <=> (LastSaved(hist.calls) # Null)
          /\ (localStorage = Null /\ Len(hist.calls) < MaxCalls) => ENABLED CallRemoveApiKey)
    /\ [][(localStorage = Null /\ CallRemoveApiKey) => localStorage' = Null]_vars

C15_Witness ==
    /\ Len(hist.calls) = 3
    /\ hist.calls[1] = [fn |-> "saveApiKey", arg |-> "k1"]
    /\ hist.calls[2].fn = "removeApiKey"
    /\ hist.calls[3] = [fn |-> "saveApiKey", arg |-> "k2"]
    /\ getApiKey(localStorage) = "k2"

(***************************************************************************)
(* Panel and hook claims.                                                  *)
(***************************************************************************)
\* A successful decode response whose decoded_message is empty.
EmptyDecode(resp) ==
    resp.transport = "ok" /\ resp.code \in 200..299 /\ resp.payload = ""

\* C16: a successful decode response with an empty decoded_message is not
\* an error: decodeImage resolves with decodedMessage "", and DecodePanel
\* ends with decodedMessage = "" (shown as 'No message found in image'),
\* error = null and loading over.
C16_EmptyDecodeIsNoError ==
    /\ [](\A resp \in Responses("decode") :
             EmptyDecode(resp) =>
                (ApiResult("decode", resp).ok /\ ApiResult("decode", resp).value = ""))
    /\ [][\A r \in InFlight(net) : \A resp \in Responses("decode") :
             (DecodeResponseWith(r, resp) /\ r.live /\ EmptyDecode(resp)) =>
                /\ decodePanel'.decodedMessage = ""
                /\ decodePanel'.error = Null
                /\ ~decodePanel'.loading
                /\ DecodedMessageDisplay(decodePanel') = "No message found in image"]_vars

C16_Witness ==
    /\ decodePanel.mounted
    /\ decodePanel.decodedMessage = ""
    /\ decodePanel.error = Null
    /\ ~decodePanel.loading
    /\ hist.decodedCode = 200
    /\ \A r \in InFlight(net) : r.op # "decode"

\* C17: useHealthStatus is 'checking' from its mount until the first health
\* check completes; after every check that completes while the hook is
\* mounted the status is 'online' if and only if the response's status
\* field is 'healthy', and 'offline' otherwise, also when the request fails.
C17_HealthStatus ==
    [][/\ \A r \in InFlight(net) : \A resp \in Responses("health") :
             (HealthResponseWith(r, resp) /\ r.live) =>
                health'.status =
                    IF resp.transport = "ok" /\ resp.payload = "healthy"
                    THEN "online" ELSE "offline"
       /\ (~health.mounted /\ health'.mounted) => health'.status = "checking"
       /\ (health.mounted /\ health'.mounted /\ health'.status # health.status) =>
             \E r \in InFlight(net) : \E resp \in Responses("health") :
                 HealthResponseWith(r, resp) /\ r.live]_vars

C17_Witness ==
    /\ health.mounted
    /\ health.status = "offline"
    /\ auth.apiKey = "k2"
    /\ \E r \in InFlight(net) : r.op = "health" /\ r.live /\ r.header = "k2"

\* The request failed: an HTTP error response, or no response at all.
FailedOnTheWire(resp) == resp.transport \in {"http_error", "no_response"}

\* The message C18 names for such a response.
NamedErrorMessage(resp) ==
    IF resp.transport = "no_response"
    THEN "No response from server. Please check if the backend is running."
    ELSE IF resp.message # "" THEN resp.message
    ELSE IF resp.detail # "" /\ resp.detailIsString THEN resp.detail
    ELSE IF resp.detail # "" THEN JsonStringify(resp.detail)
    ELSE "Server error: " \o ToString(resp.status) \o " " \o resp.statusText

\* C18: for a request that fails with an HTTP error response, the Error the
\* client rejects with has as message the body's message field if present
\* (not empty), else the body's detail field (JSON-encoded when it is not a
\* string), else 'Server error: <status> <statusText>'; when no response
\* was received it is 'No response from server. Please check if the
\* backend is running.'.  Stated of the five API functions, and of the
\* error LoginPage shows for a failed /login call.
C18_ErrorMessages ==
    /\ [](\A op \in Ops \ {"health"} : \A resp \in Responses(op) \cup LoginErrorResponses :
             FailedOnTheWire(resp) =>
                /\ ~ApiResult(op, resp).ok
                /\ ApiResult(op, resp).error = NamedErrorMessage(resp))
    /\ [](\A resp \in Responses("health") \cup LoginErrorResponses :
             FailedOnTheWire(resp) =>
                /\ ~HealthResult(resp).ok
                /\ HealthResult(resp).error = NamedErrorMessage(resp))
    /\ [][\A r \in InFlight(net) : \A resp \in Responses("login") :
             (LoginResponseWith(r, resp) /\ r.live /\ FailedOnTheWire(resp)) =>
                loginPage'.error = NamedErrorMessage(resp)]_vars

C18_Witness ==
    /\ loginPage.mounted
    /\ loginPage.error = "Server error: 401 Unauthorized"
    /\ ~loginPage.isLoading
    /\ loginPage.apiKey = "k1"
    /\ localStorage = Null

\* C19: login(key) tests the supplied key: every /login request carries the
\* supplied key in X-API-KEY, also when a different key is stored, so the
\* key AuthProvider.login saves is the key the server accepted.
C19_LoginTestsSuppliedKey ==
    /\ [](\A r \in InFlight(net) : r.op = "login" => r.header = r.key)
    /\ [][\A r \in InFlight(net) : \A resp \in Responses("login") :
             (LoginResponseWith(r, resp) /\ r.live /\ LoginAccepted(resp)
                /\ localStorage' = r.key) => r.header = r.key]_vars

\* No capacity request of the mounted EncodePanel is outstanding.
CapacitySettled(n) == \A q \in InFlight(n) : ~(q.op = "capacity" /\ q.live)

\* C20: once every outstanding capacity request of an EncodePanel has
\* completed, the capacity it holds is the value returned for the currently
\* selected image and algorithm, whatever the order in which the responses
\* arrived: when the panel holds the value answered for the selected pair,
\* the last outstanding response, answering a request for another image or
\* algorithm, leaves that value in place.
C20_CapacityOfCurrentPair ==
    [][\A r \in InFlight(net) : \A resp \in Responses("capacity") :
         (/\ CapacityResponseWith(r, resp)
          /\ r.live
          /\ <<r.imageData, r.algorithm>> # CurrentPair
          /\ encodePanel.capacity # NoCapacity
          /\ hist.capacityFrom = CurrentPair
          /\ CapacitySettled(net'))
         => encodePanel'.capacity = encodePanel.capacity]_vars

\* ------------------------------------------------------------------------
\* Home claims
\* ------------------------------------------------------------------------

\* C21: whenever Home holds an encoded image it is the result of encoding
\* the image currently held as the original: no encoded image is held while
\* there is no original image, and an encode response for an image that is
\* no longer the original (replaced or cleared) leaves the encoded image as
\* it was.
C21_EncodedImageOfOriginal ==
    /\ [](home.encodedImageData # Null => home.original.data # Null)
    /\ [][\A r \in InFlight(net) : \A resp \in Responses("encode") :
             (EncodeResponseWith(r, resp) /\ r.imageData # home.original.data)
                => home'.encodedImageData = home.encodedImageData]_vars

\* ------------------------------------------------------------------------
\* Failure bodies, loading flags and panel outcomes
\* ------------------------------------------------------------------------

\* HTTP status 2xx with a body whose code is not a success code.
BodyFailure(resp) == resp.transport = "ok" /\ resp.code \notin 200..299

\* The text C22 names for op.
NamedDefaultText(op) ==
    IF op = "encode" THEN "Image encoding failed"
    ELSE IF op = "decode" THEN "Image decoding failed"
    ELSE IF op = "capacity" THEN "Capacity check failed"
    ELSE "Login failed"

NamedBodyFailureMessage(op, resp) ==
    IF resp.message # "" THEN resp.message ELSE NamedDefaultText(op)

\* C22: when the HTTP status is 2xx but the body's code is outside
\* 200..299, encodeImage, decodeImage, getImageCapacity and login reject
\* with an Error whose message is the body's message field, or the
\* operation's default text when that field is empty; so that is the error
\* EncodePanel shows after such an encode response.
C22_BodyFailureMessage ==
    /\ [](\A op \in Ops \ {"health"} : \A resp \in Responses(op) :
             BodyFailure(resp) =>
                /\ ~ApiResult(op, resp).ok
                /\ ApiResult(op, resp).error = NamedBodyFailureMessage(op, resp))
    /\ [][\A r \in InFlight(net) : \A resp \in Responses("encode") :
             (EncodeResponseWith(r, resp) /\ r.live /\ BodyFailure(resp))
                => encodePanel'.error = NamedBodyFailureMessage("encode", resp)]_vars

\* The number of requests op of the mounted panel that are outstanding.
Outstanding(op) ==
    BagCardinality([r \in {q \in InFlight(net) : q.op = op /\ q.live} |-> CopiesIn(r, net)])

\* C23: in an EncodePanel and in a DecodePanel, loading is true exactly
\* while that panel's encode (resp. decode) request is outstanding; the
\* panel never has two such requests outstanding; so loading is false
\* again in the state the request's resolution or rejection leads to.
C23_LoadingWhileOutstanding ==
    /\ encodePanel.mounted =>
          /\ Outstanding("encode") <= 1
          /\ encodePanel.loading <=> Outstanding("encode") = 1
    /\ decodePanel.mounted =>
          /\ Outstanding("decode") <= 1
          /\ decodePanel.loading <=> Outstanding("decode") = 1
    /\ ~encodePanel.mounted => Outstanding("encode") = 0
    /\ ~decodePanel.mounted => Outstanding("decode") = 0

\* A second encode is outstanding after a first one resolved.
C23_Witness ==
    /\ encodePanel.mounted
    /\ encodePanel.loading
    /\ Outstanding("encode") = 1
    /\ home.encodedImageData # Null

\* C24: starting a decode clears any previously decoded message and error
\* before the request is sent, so neither is held while the panel's decode
\* request is outstanding; in every state DecodePanel holds at most one of
\* an error and a decoded message; and after a completed decode it holds
\* exactly the outcome of that decode: the decoded message of a success
\* and no error, or the error of a failure and no message.
C24_DecodeOutcomeOnly ==
    /\ [](decodePanel.mounted =>
             ~(decodePanel.error # Null /\ decodePanel.decodedMessage # Null))
    /\ [](decodePanel.mounted /\ Outstanding("decode") > 0 =>
             decodePanel.error = Null /\ decodePanel.decodedMessage = Null)
    /\ [][handleDecode =>
             /\ decodePanel'.error = Null /\ decodePanel'.decodedMessage = Null
             /\ Outstanding("decode")' = 1]_vars
    /\ [][\A r \in InFlight(net) : \A resp \in Responses("decode") :
             (DecodeResponseWith(r, resp) /\ r.live) =>
                IF resp.transport = "ok" /\ resp.code \in 200..299
                THEN decodePanel'.decodedMessage = resp.payload /\ decodePanel'.error = Null
                ELSE /\ decodePanel'.decodedMessage = Null
                     /\ decodePanel'.error = ApiResult("decode", resp).error
                     /\ decodePanel'.error # Null]_vars

\* A decode that failed after an earlier one had succeeded on this panel
\* would show both without the clearing; here only the error is held.
C24_Witness ==
    /\ decodePanel.mounted
    /\ ~decodePanel.loading
    /\ decodePanel.error = "No response from server. Please check if the backend is running."
    /\ decodePanel.decodedMessage = Null
    /\ Outstanding("decode") = 0

\* C25: when an encode request succeeds, EncodePanel calls onEncodedImage
\* once with the response's image data and the image format the panel made
\* the request with, and clears the message and the error; when it fails,
\* onEncodedImage is not called (Home is left as it was), the message is
\* kept and the error is set to the failure's message.
C25_EncodeOutcome ==
    [][\A r \in InFlight(net) : \A resp \in Responses("encode") :
         (EncodeResponseWith(r, resp) /\ r.live) =>
            IF resp.transport = "ok" /\ resp.code \in 200..299
            THEN /\ home' = [home EXCEPT !.encodedImageData = resp.payload,
                                         !.encodedImageFormat = r.imageFormat]
                 /\ encodePanel'.message = <<>>
                 /\ encodePanel'.error = Null
            ELSE /\ home' = home
                 /\ encodePanel'.message = encodePanel.message
                 /\ encodePanel'.error = ApiResult("encode", resp).error
                 /\ encodePanel'.error # Null]_vars

C25_Witness ==
    /\ encodePanel.mounted
    /\ encodePanel.message = <<>>
    /\ encodePanel.error = Null
    /\ ~encodePanel.loading
    /\ home.encodedImageData # Null
    /\ home.encodedImageFormat = home.original.format
    /\ home.original.format = "jpg"
    /\ net = EmptyBag

\* C26: in Home, uploading an image replaces the original image, its format
\* and its filename and clears the encoded image; clearing removes both the
\* original and the encoded image; a delivered encode result sets only the
\* encoded image and its format; switching between encode and decode mode
\* changes neither image.
C26_HomeFrame ==
    /\ [][\A u \in Uploads : handleImageUploadWith(u) =>
             home' = [home EXCEPT !.original = u, !.encodedImageData = Null]]_vars
    /\ [][handleClearImage =>
             /\ home'.original.data = Null
             /\ home'.encodedImageData = Null
             /\ home'.mode = home.mode]_vars
    /\ [][(home'.encodedImageData # Null /\ home'.encodedImageData # home.encodedImageData)
             => /\ home'.original = home.original
                /\ home'.mode = home.mode]_vars
    /\ [][EncodeResponse => home'.original = home.original /\ home'.mode = home.mode]_vars
    /\ [][setMode =>
             /\ home'.mode # home.mode
             /\ home'.original = home.original
             /\ home'.encodedImageData = home.encodedImageData
             /\ home'.encodedImageFormat = home.encodedImageFormat]_vars

\* Decode mode, entered while an original and an encoded image are held.
C26_Witness ==
    /\ home.mode = "decode"
    /\ home.original.data # Null
    /\ home.encodedImageData # Null
    /\ decodePanel.mounted

\* ------------------------------------------------------------------------
\* ImagePanel claims
\* ------------------------------------------------------------------------

\* The file's type starts with image/ and its content is not empty.
Uploadable(file) ==
    /\ Len(file.type) >= 6
    /\ SubSeq(file.type, 1, 6) = "image/"
    /\ file.content # ""

\* The part of the type after image/.
Subtype(file) == SubSeq(file.type, 7, Len(file.type))

\* The subtype in lower case, for the subtypes of FileTypes.
LowerSubtype(file) ==
    IF Subtype(file) \in {"png", "PNG"} THEN "png"
    ELSE IF Subtype(file) \in {"jpeg", "JPEG"} THEN "jpeg"
    ELSE Subtype(file)

NamedFormat(file) == IF LowerSubtype(file) = "jpeg" THEN "jpg" ELSE LowerSubtype(file)

\* The file name without its extension, for the names of FileNames.
NamedFilename(file) ==
    IF file.name = "one.png" THEN "one"
    ELSE IF file.name = "a.tar.gz" THEN "a.tar"
    ELSE file.name

=============================================================================
